---- MODULE Spec2Model ----
(***************************************************************************)
(* Verification model of gaphor's core model schema                        *)
(* (gaphor/core/modeling/coremodel.py) and of its text layout support      *)
(* (gaphor/diagram/text.py).                                               *)
(*                                                                         *)
(* Three specifications share the module:                                  *)
(*   SpecModel   the entity/relationship graph under set, unset, delete;   *)
(*   SpecGeom    the pure placement functions of text.py, applied to       *)
(*               inputs drawn by GeomInit;                                 *)
(*   SpecLayout  the Layout object of text.py and the text-shaping layout  *)
(*               it drives.                                                *)
(***************************************************************************)
EXTENDS Integers, Sequences, FiniteSets, TLC

VARIABLES
    alive,      \* entities registered in the repository
    rel,        \* rel[e][r]: the stored value of relation r on entity e (a set)
    last,       \* the most recent model operation (history)
    nops,       \* number of model operations performed
    call,       \* the placement function called and its arguments
    ret,        \* its result, "pending" before the call returns
    lay,        \* the fields of the Layout object
    pango,      \* the state of the underlying text-shaping layout
    hist        \* what the most recent Layout call did (history)

modelVars == <<alive, rel, last, nops>>
geomVars == <<call, ret>>
layoutVars == <<lay, pango, hist>>
vars == <<alive, rel, last, nops, call, ret, lay, pango, hist>>

(***************************************************************************)
(* Part 1. The core model schema.                                          *)
(***************************************************************************)

\* Bound on the number of mutations explored from the empty graph.
MaxOps == 3

\* The repository's entities. Every Element of the universe is a Diagram or a
\* Comment, both of which are Elements.
Diagrams == {"d1", "d2"}
Comments == {"c1"}
Presentations == {"p1", "p2"}
Elements == Diagrams \cup Comments
Entities == Elements \cup Presentations

KindOf(e) ==
    CASE e \in Diagrams -> "Diagram"
      [] e \in Comments -> "Comment"
      [] e \in Presentations -> "Presentation"

\* Comment(Element), Diagram(Element): every kind is itself, and the Element
\* subtypes are Elements.
IsA(k, super) ==
    \/ k = super
    \/ super = "Element" /\ k \in {"Diagram", "Comment"}

Rels == {"presentation", "subject", "ownedDiagram", "element", "comment",
         "annotatedElement", "ownedPresentation", "diagram", "children",
         "parent"}

DerivedUnions == {"ownedElement", "owner"}

\* The class an association is attached to.
OwnerType(r) ==
    CASE r \in {"presentation", "ownedDiagram", "comment"} -> "Element"
      [] r \in {"ownedPresentation", "element"} -> "Diagram"
      [] r \in {"parent", "children", "diagram", "subject"} -> "Presentation"
      [] r = "annotatedElement" -> "Comment"

\* The declared type of an association's values.
TargetType(r) ==
    CASE r \in {"presentation", "ownedPresentation", "parent", "children"}
            -> "Presentation"
      [] r \in {"ownedDiagram", "diagram"} -> "Diagram"
      [] r = "comment" -> "Comment"
      [] r \in {"element", "subject", "annotatedElement"} -> "Element"

OppositeWrong(r) ==
    CASE r = "presentation" -> "subject"
      [] r = "subject" -> "presentation"
      [] r = "ownedDiagram" -> "element"
      [] r = "element" -> "ownedDiagram"
      [] r = "comment" -> "annotatedElement"
      [] r = "annotatedElement" -> "comment"
      [] r = "ownedPresentation" -> "diagram"
      [] r = "diagram" -> "ownedPresentation"
      [] r = "children" -> "parent"
      [] r = "parent" -> "parent"

\* opposite=
Opposite(r) ==
    CASE r = "presentation" -> "subject"
      [] r = "subject" -> "presentation"
      [] r = "ownedDiagram" -> "element"
      [] r = "element" -> "ownedDiagram"
      [] r = "comment" -> "annotatedElement"
      [] r = "annotatedElement" -> "comment"
      [] r = "ownedPresentation" -> "diagram"
      [] r = "diagram" -> "ownedPresentation"
      [] r = "children" -> "parent"
      [] r = "parent" -> "children"

UpperOneWrong(r) == r \in {"element", "parent", "subject"}

\* upper=1
UpperOne(r) == r \in {"element", "parent", "diagram", "subject"}

CompositeWrong(r) ==
    r \in {"presentation", "ownedDiagram", "ownedPresentation"}

\* composite=True
Composite(r) ==
    r \in {"presentation", "ownedDiagram", "ownedPresentation", "children"}

ContributorsWrong(u) ==
    CASE u = "ownedElement" -> {"ownedDiagram", "presentation"}
      [] u = "owner" -> {"element"}

\* The relations registered on a derived union with .add().
Contributors(u) ==
    CASE u = "ownedElement" -> {"ownedDiagram"}
      [] u = "owner" -> {"element"}

\* Relation r exists on entity a; b may be a value of it.
Applicable(a, r) == IsA(KindOf(a), OwnerType(r))
TargetOK(r, b) == IsA(KindOf(b), TargetType(r))

EmptyStore == [e \in Entities |-> [r \in Rels |-> {}]]

\* get(relation)
Get(s, a, r) == IF Applicable(a, r) THEN s[a][r] ELSE {}

\* Reading a derived union: the union of its contributors on the instance.
DerivedGet(s, a, u) == UNION {Get(s, a, r) : r \in Contributors(u)}

\* Remove the link a -r-> b and its opposite side.
Unlink(s, a, r, b) ==
    [x \in Entities |-> [q \in Rels |->
        IF x = a /\ q = r THEN s[x][q] \ {b}
        ELSE IF x = b /\ q = Opposite(r) THEN s[x][q] \ {a}
        ELSE s[x][q]]]

\* Add the link a -r-> b and its opposite side.
Link(s, a, r, b) ==
    [x \in Entities |-> [q \in Rels |->
        IF x = a /\ q = r THEN s[x][q] \cup {b}
        ELSE IF x = b /\ q = Opposite(r) THEN s[x][q] \cup {a}
        ELSE s[x][q]]]

\* Unlink every value a holds in r.
RECURSIVE ClearAll(_, _, _)
ClearAll(s, a, r) ==
    IF s[a][r] = {} THEN s
    ELSE LET b == CHOOSE x \in s[a][r] : TRUE
         IN ClearAll(Unlink(s, a, r, b), a, r)

\* set(relation, value): an upper bound of 1, on either side, replaces the
\* value held; the opposite side is updated with it.
SetRel(s, a, r, b) ==
    IF b \in s[a][r] THEN s
    ELSE LET s1 == IF UpperOne(r) THEN ClearAll(s, a, r) ELSE s
             s2 == IF UpperOne(Opposite(r))
                   THEN ClearAll(s1, b, Opposite(r)) ELSE s1
         IN Link(s2, a, r, b)

\* unset(relation, value): a no-op when the value is absent.
UnsetRel(s, a, r, b) == IF b \in s[a][r] THEN Unlink(s, a, r, b) ELSE s

\* The entities a deletion of the members of D takes with it: D and everything
\* reachable from it over composite associations.
RECURSIVE Cascade(_, _)
Cascade(s, D) ==
    LET kids == UNION {s[e][r] : e \in D, r \in {q \in Rels : Composite(q)}}
    IN IF kids \subseteq D THEN D ELSE Cascade(s, D \cup kids)

\* Deletion: the composite children go first, then every remaining relation of
\* the deleted entities is cleared, on both sides.
DeleteRel(s, D) ==
    [x \in Entities |-> [q \in Rels |->
        IF x \in D THEN {} ELSE s[x][q] \ D]]

NoOp == [op |-> "init", a |-> "", r |-> "", b |-> "", eff |-> ""]

ModelInit ==
    /\ alive = Entities
    /\ rel = EmptyStore
    /\ last = NoOp
    /\ nops = 0

Set(a, r, b) ==
    /\ nops < MaxOps
    /\ a \in alive /\ b \in alive
    /\ Applicable(a, r) /\ TargetOK(r, b)
    /\ rel' = SetRel(rel, a, r, b)
    /\ last' = [op |-> "set", a |-> a, r |-> r, b |-> b,
                eff |-> IF b \in rel[a][r] THEN "kept"
                        ELSE IF UpperOne(Opposite(r)) /\ rel[b][Opposite(r)] # {}
                             THEN "moved"
                        ELSE IF rel[a][r] # {} /\ UpperOne(r) THEN "replaced"
                        ELSE "added"]
    /\ nops' = nops + 1
    /\ UNCHANGED <<alive, geomVars, layoutVars>>

\* A value of the wrong type is refused (TypeMismatch); a derived union is
\* read-only (ReadOnlyRelationError). Nothing changes.
SetRejected(a, r, b) ==
    /\ nops < MaxOps
    /\ a \in alive /\ b \in alive
    /\ \/ r \in DerivedUnions
       \/ r \in Rels /\ Applicable(a, r) /\ ~TargetOK(r, b)
    /\ last' = [op |-> "rejected", a |-> "", r |-> "", b |-> "",
                eff |-> IF r \in DerivedUnions THEN "ReadOnlyRelationError"
                        ELSE "TypeMismatch"]
    /\ nops' = nops + 1
    /\ UNCHANGED <<alive, rel, geomVars, layoutVars>>

Unset(a, r, b) ==
    /\ nops < MaxOps
    /\ a \in alive /\ b \in alive
    /\ Applicable(a, r) /\ TargetOK(r, b)
    /\ rel' = UnsetRel(rel, a, r, b)
    /\ last' = [op |-> "unset", a |-> a, r |-> r, b |-> b,
                eff |-> IF b \in rel[a][r] THEN "removed" ELSE "absent"]
    /\ nops' = nops + 1
    /\ UNCHANGED <<alive, geomVars, layoutVars>>

Delete(e) ==
    /\ nops < MaxOps
    /\ e \in alive
    /\ LET D == Cascade(rel, {e})
       IN /\ alive' = alive \ D
          /\ rel' = DeleteRel(rel, D)
          /\ last' = [op |-> "delete", a |-> e, r |-> "", b |-> "",
                      eff |-> IF D = {e} THEN "single" ELSE "cascade"]
    /\ nops' = nops + 1
    /\ UNCHANGED <<geomVars, layoutVars>>

ModelNext ==
    \/ \E a \in Entities, r \in Rels, b \in Entities : Set(a, r, b)
    \/ \E a \in Entities, r \in Rels \cup DerivedUnions, b \in Entities :
           SetRejected(a, r, b)
    \/ \E a \in Entities, r \in Rels, b \in Entities : Unset(a, r, b)
    \/ \E e \in Entities : Delete(e)

(***************************************************************************)
(* Part 2. The placement functions of gaphor/diagram/text.py.              *)
(*                                                                         *)
(* Coordinates and sizes are integers; every value the functions compute   *)
(* from them with / is an exact rational <<n, d>>, d > 0, in lowest terms. *)
(***************************************************************************)

\* Largest |dx|, |dy| of the segments handed to the line-end and line-centre
\* placement directly.
MaxDelta == 7
\* Longest polyline.
MaxPoints == 4

Abs(n) == IF n < 0 THEN -n ELSE n

RECURSIVE GCD(_, _)
GCD(a, b) == IF b = 0 THEN a ELSE GCD(b, a % b)

Rat(n, d) ==
    LET g == GCD(Abs(n), Abs(d))
        s == IF d < 0 THEN -1 ELSE 1
    IN <<(s * n) \div g, (s * d) \div g>>

RInt(n) == <<n, 1>>
RAdd(a, b) == Rat(a[1] * b[2] + b[1] * a[2], a[2] * b[2])
RSub(a, b) == Rat(a[1] * b[2] - b[1] * a[2], a[2] * b[2])
RMul(a, b) == Rat(a[1] * b[1], a[2] * b[2])
RDiv(a, b) == Rat(a[1] * b[2], a[2] * b[1])
RAbs(a) == <<Abs(a[1]), a[2]>>
RLt(a, b) == a[1] * b[2] < b[1] * a[2]
RLe(a, b) == a[1] * b[2] <= b[1] * a[2]

Aligns == {"LEFT", "CENTER", "RIGHT"}

\* seq[i] as Python indexes a list: from 0, and from the end when negative.
PyValid(seq, i) == -Len(seq) <= i /\ i < Len(seq)
PyIndex(seq, i) == IF i >= 0 THEN seq[i + 1] ELSE seq[Len(seq) + i + 1]

Pending ==
    [status |-> "pending", pt |-> <<RInt(0), RInt(0)>>, seg |-> <<>>,
     helper |-> ""]
Raised(e) == [Pending EXCEPT !.status = e]
Returned(pt, seg, helper) ==
    [status |-> "ok", pt |-> pt, seg |-> seg, helper |-> helper]

FocusBoxPosWrong(bounding_box, text_size, text_align) ==
    LET x == RInt(bounding_box[1])
        y == RInt(bounding_box[2])
        width == bounding_box[3]
        height == bounding_box[4]
        w == text_size[1]
        h == text_size[2]
        x1 == IF text_align = "CENTER" THEN RAdd(x, Rat(width - w, 2))
              ELSE IF text_align = "RIGHT" THEN RAdd(x, Rat(width - w, 2))
              ELSE x
        y1 == IF text_align = "CENTER" THEN RAdd(y, Rat(height - h, 2)) ELSE y
    IN <<x1, y1>>

FocusBoxPos(bounding_box, text_size, text_align) ==
    LET x == RInt(bounding_box[1])
        y == RInt(bounding_box[2])
        width == bounding_box[3]
        height == bounding_box[4]
        w == text_size[1]
        h == text_size[2]
        x1 == IF text_align = "CENTER" THEN RAdd(x, Rat(width - w, 2))
              ELSE IF text_align = "RIGHT" THEN RAdd(x, RInt(width - w))
              ELSE x
        y1 == RAdd(y, Rat(height - h, 2))
    IN <<x1, y1>>

\* ofs of _text_point_at_line_end, and the rc it takes for dy == 0.
EndOfs == 5
RcHorizontal == 1000

TextPointAtLineEndWrong(size, p1, p2) ==
    LET ofs == EndOfs
        dx == p2[1] - p1[1]
        dy == p2[2] - p1[2]
        name_w == size[1]
        name_h == size[2]
        rc == IF dy = 0 THEN RInt(0) ELSE Rat(dx, dy)
        abs_rc == RAbs(rc)
        h == dx > 0
        v == dy > 0
        r == RLt(abs_rc, RInt(1))
        align_left == (h /\ ~r) \/ (~h /\ r)
        align_bottom == (v /\ ~r) \/ (~v /\ r)
        name ==
            IF RLt(RInt(6), abs_rc)
            THEN IF h THEN <<ofs, -ofs - name_h>>
                 ELSE <<-ofs - name_w, -ofs - name_h>>
            ELSE IF RLe(RInt(0), abs_rc) /\ RLe(abs_rc, Rat(2, 10))
            THEN IF v THEN <<-ofs - name_w, ofs>>
                 ELSE <<-ofs - name_w, -ofs - name_h>>
            ELSE <<IF align_left THEN ofs ELSE -ofs - name_w,
                   IF align_bottom THEN -ofs - name_h ELSE ofs>>
    IN <<RInt(p1[1] + name[1]), RInt(p1[2] + name[2])>>

TextPointAtLineEnd(size, p1, p2) ==
    LET ofs == EndOfs
        dx == p2[1] - p1[1]
        dy == p2[2] - p1[2]
        name_w == size[1]
        name_h == size[2]
        rc == IF dy = 0 THEN RInt(RcHorizontal) ELSE Rat(dx, dy)
        abs_rc == RAbs(rc)
        h == dx > 0
        v == dy > 0
        r == RLt(abs_rc, RInt(1))
        align_left == (h /\ ~r) \/ (~h /\ r)
        align_bottom == (v /\ ~r) \/ (~v /\ r)
        name ==
            IF RLt(RInt(6), abs_rc)
            THEN IF h THEN <<ofs, -ofs - name_h>>
                 ELSE <<-ofs - name_w, -ofs - name_h>>
            ELSE IF RLe(RInt(0), abs_rc) /\ RLe(abs_rc, Rat(2, 10))
            THEN IF v THEN <<-ofs - name_w, ofs>>
                 ELSE <<-ofs - name_w, -ofs - name_h>>
            ELSE <<IF align_left THEN ofs ELSE -ofs - name_w,
                   IF align_bottom THEN -ofs - name_h ELSE ofs>>
    IN <<RInt(p1[1] + name[1]), RInt(p1[2] + name[2])>>

WIDTH_HINT == <<-1, -1, 0>>
PADDING_HINT == <<1, 1, -1>>
EPSILON == Rat(1, 1000000)
\* ofs of _text_point_at_line_center
CenterOfs == 3

TextPointAtLineCenter(size, p1, p2) ==
    LET x0 == Rat(p1[1] + p2[1], 2)
        y0 == Rat(p1[2] + p2[2], 2)
        dx == p2[1] - p1[1]
        dy == p2[2] - p1[2]
        ofs == RInt(CenterOfs)
        vertical == RLt(RInt(Abs(dx)), EPSILON)
        horizontal == RLt(RInt(Abs(dy)), EPSILON)
        d1 == IF vertical THEN RInt(-1)
              ELSE IF horizontal THEN RInt(0)
              ELSE Rat(dy, dx)
        d2 == IF vertical THEN RInt(1)
              ELSE IF horizontal THEN RInt(0)
              ELSE RAbs(d1)
        width == RInt(size[1])
        height == RInt(size[2])
    IN IF RLt(d2, Rat(5774, 10000))
       THEN LET w2 == RDiv(width, RInt(2))
                hint == RMul(w2, d2)
            IN <<RSub(x0, w2), RAdd(RAdd(y0, hint), ofs)>>
       ELSE LET h2 == RDiv(height, RInt(2))
                q == (IF RLt(RInt(0), d1) THEN 1 ELSE 0)
                     - (IF RLt(d1, RInt(0)) THEN 1 ELSE 0)
                hint == IF vertical THEN RInt(0) ELSE RDiv(h2, d2)
                \* the first value given to x is overwritten by the second
                x == RAdd(RSub(x0, RMul(RAdd(ofs, hint),
                                        RInt(PyIndex(PADDING_HINT, q)))),
                          RMul(width, RInt(PyIndex(WIDTH_HINT, q))))
            IN <<x, RSub(y0, h2)>>

MiddleSegmentWrong(points) ==
    LET m == (Len(points) + 1) \div 2
    IN IF ~(m >= 1 /\ m < Len(points)) THEN Raised("AssertionError")
       ELSE Returned(Pending.pt,
                     <<PyIndex(points, m - 1), PyIndex(points, m)>>, "")

MiddleSegment(points) ==
    LET m == Len(points) \div 2
    IN IF ~(m >= 1 /\ m < Len(points)) THEN Raised("AssertionError")
       ELSE Returned(Pending.pt,
                     <<PyIndex(points, m - 1), PyIndex(points, m)>>, "")

TextPointAtLine(points, size, text_align) ==
    CASE text_align = "LEFT" ->
            IF ~PyValid(points, 0) \/ ~PyValid(points, 1)
            THEN Raised("IndexError")
            ELSE LET p0 == PyIndex(points, 0)
                     p1 == PyIndex(points, 1)
                 IN Returned(TextPointAtLineEnd(size, p0, p1), <<p0, p1>>,
                             "_text_point_at_line_end")
      [] text_align = "CENTER" ->
            LET mid == MiddleSegment(points)
            IN IF mid.status # "ok" THEN mid
               ELSE Returned(
                        TextPointAtLineCenter(size, mid.seg[1], mid.seg[2]),
                        mid.seg, "_text_point_at_line_center")
      [] text_align = "RIGHT" ->
            IF ~PyValid(points, -1) \/ ~PyValid(points, -2)
            THEN Raised("IndexError")
            ELSE LET p0 == PyIndex(points, -1)
                     p1 == PyIndex(points, -2)
                 IN Returned(TextPointAtLineEnd(size, p0, p1), <<p0, p1>>,
                             "_text_point_at_line_end")

\* The inputs the functions are applied to.
Sizes == {<<20, 10>>, <<40, 10>>, <<3, 4>>}
PolyPoints == {<<0, 0>>, <<1, 1>>, <<2, 2>>, <<100, 0>>}
Polylines == UNION {[1..n -> PolyPoints] : n \in 0..MaxPoints}
Origins == {<<0, 0>>, <<3, -2>>}
Segments ==
    {<<p, <<p[1] + dx, p[2] + dy>>>> :
        p \in Origins, dx \in -MaxDelta..MaxDelta, dy \in -MaxDelta..MaxDelta}
Boxes == {<<x, y, w, h>> : x \in {0, 3}, y \in {0, -2}, w \in {7, 100},
                           h \in {5, 20}}

NoCall ==
    [fn |-> "none", points |-> <<>>, size |-> <<0, 0>>, align |-> "LEFT",
     box |-> <<0, 0, 0, 0>>]

GeomIdle ==
    /\ call = NoCall
    /\ ret = Pending

GeomInit ==
    /\ ret = Pending
    /\ \/ \E b \in Boxes, s \in Sizes, a \in Aligns :
             call = [NoCall EXCEPT !.fn = "focus_box_pos", !.box = b,
                                   !.size = s, !.align = a]
       \/ \E p \in Polylines, s \in Sizes, a \in Aligns :
             call = [NoCall EXCEPT !.fn = "text_point_at_line", !.points = p,
                                   !.size = s, !.align = a]
       \/ \E p \in Polylines :
             call = [NoCall EXCEPT !.fn = "middle_segment", !.points = p]
       \/ \E g \in Segments, s \in Sizes :
             call = [NoCall EXCEPT !.fn = "_text_point_at_line_end",
                                   !.points = g, !.size = s]
       \/ \E g \in Segments, s \in Sizes :
             call = [NoCall EXCEPT !.fn = "_text_point_at_line_center",
                                   !.points = g, !.size = s]

CallFocusBoxPos ==
    /\ ret.status = "pending" /\ call.fn = "focus_box_pos"
    /\ ret' = Returned(FocusBoxPos(call.box, call.size, call.align), <<>>, "")
    /\ UNCHANGED <<call, modelVars, layoutVars>>

CallTextPointAtLine ==
    /\ ret.status = "pending" /\ call.fn = "text_point_at_line"
    /\ ret' = TextPointAtLine(call.points, call.size, call.align)
    /\ UNCHANGED <<call, modelVars, layoutVars>>

CallMiddleSegment ==
    /\ ret.status = "pending" /\ call.fn = "middle_segment"
    /\ ret' = MiddleSegment(call.points)
    /\ UNCHANGED <<call, modelVars, layoutVars>>

CallTextPointAtLineEnd ==
    /\ ret.status = "pending" /\ call.fn = "_text_point_at_line_end"
    /\ ret' = Returned(TextPointAtLineEnd(call.size, call.points[1],
                                          call.points[2]),
                       call.points, "")
    /\ UNCHANGED <<call, modelVars, layoutVars>>

CallTextPointAtLineCenter ==
    /\ ret.status = "pending" /\ call.fn = "_text_point_at_line_center"
    /\ ret' = Returned(TextPointAtLineCenter(call.size, call.points[1],
                                             call.points[2]),
                       call.points, "")
    /\ UNCHANGED <<call, modelVars, layoutVars>>

GeomNext ==
    \/ CallFocusBoxPos
    \/ CallTextPointAtLine
    \/ CallMiddleSegment
    \/ CallTextPointAtLineEnd
    \/ CallTextPointAtLineCenter

(***************************************************************************)
(* Part 3. The Layout object of gaphor/diagram/text.py.                    *)
(***************************************************************************)

\* Pango.SCALE
PangoScale == 1024

\* Texts are sequences of characters.
Texts == {<<>>, <<"a">>, <<"<", "b", "&">>}

\* A font is the part of a Style that set_font reads. "none" is a key the
\* style does not hold.
Fonts ==
    [family : {"sans"}, size : {10}, weight : {"none", "BOLD"},
     style : {"none", "ITALIC"}, decoration : {"NONE", "UNDERLINE"}]
NoFont ==
    [family |-> "", size |-> 0, weight |-> "none", style |-> "none",
     decoration |-> "NONE"]
Widths == {-1, 50}
ShowWidths == {-1, 80}
Contexts == {"FreeHandCairoContext", "CairoBoundingBoxContext", "cairo"}

NoFontId == <<>>
NoFontDescription ==
    [family |-> "", absolute_size |-> 0, weight |-> "", style |-> ""]

\* A Layout as __init__ leaves it before it applies its arguments, on a newly
\* created text-shaping layout; calls and fds count the calls made on that
\* layout and the font descriptions built.
Fresh ==
    [lay |-> [underline |-> FALSE, font_id |-> NoFontId, text |-> <<>>,
              width |-> -1, default_size |-> <<0, 0>>],
     pango |-> [font_description |-> NoFontDescription,
                content |-> [kind |-> "text", s |-> <<>>],
                width |-> -1, alignment |-> "LEFT"],
     calls |-> 0, fds |-> 0]

\* GLib.markup_escape_text
EscapeChar(c) ==
    CASE c = "&" -> <<"&", "a", "m", "p", ";">>
      [] c = "<" -> <<"&", "l", "t", ";">>
      [] c = ">" -> <<"&", "g", "t", ";">>
      [] c = "'" -> <<"&", "#", "3", "9", ";">>
      [] c = "\"" -> <<"&", "q", "u", "o", "t", ";">>
      [] OTHER -> <<c>>

RECURSIVE MarkupEscapeText(_)
MarkupEscapeText(text) ==
    IF text = <<>> THEN <<>>
    ELSE EscapeChar(Head(text)) \o MarkupEscapeText(Tail(text))

UpdateText(st) ==
    IF st.lay.underline
    THEN [st EXCEPT !.pango.content =
                        [kind |-> "markup",
                         s |-> <<"<", "u", ">">>
                               \o MarkupEscapeText(st.lay.text)
                               \o <<"<", "/", "u", ">">>],
                    !.calls = st.calls + 1]
    ELSE [st EXCEPT !.pango.content = [kind |-> "text", s |-> st.lay.text],
                    !.calls = st.calls + 1]

\* The font description set_font builds.
FontDescription(font) ==
    [family |-> font.family,
     absolute_size |-> font.size * PangoScale,
     weight |-> IF font.weight # "none" THEN font.weight ELSE "NORMAL",
     style |-> IF font.style # "none" THEN font.style ELSE "NORMAL"]

DoSetFontWrong(st, font) ==
    LET font_id == <<font.family, font.size, font.weight, font.style>>
        st1 == [st EXCEPT !.lay.font_id = font_id,
                          !.pango.font_description = FontDescription(font),
                          !.fds = st.fds + 1,
                          !.calls = st.calls + 1]
        underline == font.decoration = "UNDERLINE"
    IN IF st1.lay.underline # underline
       THEN UpdateText([st1 EXCEPT !.lay.underline = underline])
       ELSE st1

DoSetFont(st, font) ==
    LET font_id == <<font.family, font.size, font.weight, font.style>>
        st1 == [st EXCEPT !.lay.font_id = font_id,
                          !.pango.font_description = FontDescription(font),
                          !.fds = st.fds + 1,
                          !.calls = st.calls + 1]
        underline == font.decoration = "UNDERLINE"
    IN IF font_id = st.lay.font_id THEN st
       ELSE IF st1.lay.underline # underline
       THEN UpdateText([st1 EXCEPT !.lay.underline = underline])
       ELSE st1

DoSetText(st, text) ==
    IF text # st.lay.text THEN UpdateText([st EXCEPT !.lay.text = text])
    ELSE st

DoSetWidth(st, width) ==
    [st EXCEPT !.lay.width = width,
               !.pango.width = IF width = -1 THEN -1 ELSE width * PangoScale,
               !.calls = st.calls + 1]

DoSetAlignment(st, text_align) ==
    [st EXCEPT !.pango.alignment = text_align, !.calls = st.calls + 1]

\* size(): the default size for an empty text; otherwise the width is applied
\* again and the layout is measured.
DoSize(st) ==
    IF st.lay.text = <<>> THEN st
    ELSE LET st1 == DoSetWidth(st, st.lay.width)
         IN [st1 EXCEPT !.calls = st1.calls + 1]

\* show_layout(cr, width): nothing for an empty text; otherwise the width
\* given, if any (-1 stands for None), is applied to the layout only, which is
\* then drawn or measured.
DoShowLayout(st, cr, width) ==
    IF st.lay.text = <<>> THEN st
    ELSE LET st1 == IF width # -1
                    THEN [st EXCEPT !.pango.width = width * PangoScale,
                                    !.calls = st.calls + 1]
                    ELSE st
         IN [st1 EXCEPT !.calls = st1.calls + 1]

\* __init__(text, font, text_align); "none" is no font.
Construct(text, font, text_align) ==
    LET st1 == IF font # NoFont THEN DoSetFont(Fresh, font) ELSE Fresh
        st2 == IF text # <<>> THEN DoSetText(st1, text) ELSE st1
    IN DoSetAlignment(st2, text_align)

Here == [lay |-> lay, pango |-> pango, calls |-> 0, fds |-> 0]

\* What a call did: whether it repeats the call before it, whether it changed
\* the Layout or the underlying layout, the calls it made on the underlying
\* layout, the font descriptions it built; font is the font set_font was
\* last given.
Did(op, arg, st, font) ==
    [op |-> op, arg |-> arg,
     repeat |-> hist.op = op /\ hist.arg = arg,
     changed |-> st.lay # lay \/ st.pango # pango,
     calls |-> st.calls, fds |-> st.fds, font |-> font]

LayoutInitWith(text, font, text_align) ==
    LET st == Construct(text, font, text_align)
    IN /\ lay = st.lay
       /\ pango = st.pango
       /\ hist = [op |-> "__init__", arg |-> <<>>, repeat |-> FALSE,
                  changed |-> FALSE, calls |-> st.calls, fds |-> st.fds,
                  font |-> font]

LayoutInit ==
    \E text \in Texts, font \in Fonts \cup {NoFont}, text_align \in Aligns :
        LayoutInitWith(text, font, text_align)

LayoutIdle == LayoutInitWith(<<>>, NoFont, "CENTER")

SetFont(font) ==
    LET st == DoSetFont(Here, font)
    IN /\ lay' = st.lay
       /\ pango' = st.pango
       /\ hist' = Did("set_font", font, st, font)
       /\ UNCHANGED <<modelVars, geomVars>>

SetText(text) ==
    LET st == DoSetText(Here, text)
    IN /\ lay' = st.lay
       /\ pango' = st.pango
       /\ hist' = Did("set_text", text, st, hist.font)
       /\ UNCHANGED <<modelVars, geomVars>>

SetWidth(width) ==
    LET st == DoSetWidth(Here, width)
    IN /\ lay' = st.lay
       /\ pango' = st.pango
       /\ hist' = Did("set_width", width, st, hist.font)
       /\ UNCHANGED <<modelVars, geomVars>>

SetAlignment(text_align) ==
    LET st == DoSetAlignment(Here, text_align)
    IN /\ lay' = st.lay
       /\ pango' = st.pango
       /\ hist' = Did("set_alignment", text_align, st, hist.font)
       /\ UNCHANGED <<modelVars, geomVars>>

Size ==
    LET st == DoSize(Here)
    IN /\ lay' = st.lay
       /\ pango' = st.pango
       /\ hist' = Did("size", <<>>, st, hist.font)
       /\ UNCHANGED <<modelVars, geomVars>>

ShowLayout(cr, width) ==
    LET st == DoShowLayout(Here, cr, width)
    IN /\ lay' = st.lay
       /\ pango' = st.pango
       /\ hist' = Did("show_layout", <<cr, width>>, st, hist.font)
       /\ UNCHANGED <<modelVars, geomVars>>

LayoutNext ==
    \/ \E font \in Fonts : SetFont(font)
    \/ \E text \in Texts : SetText(text)
    \/ \E width \in Widths : SetWidth(width)
    \/ \E text_align \in Aligns : SetAlignment(text_align)
    \/ Size
    \/ \E cr \in Contexts, width \in ShowWidths : ShowLayout(cr, width)

(***************************************************************************)
(* The specifications.                                                     *)
(***************************************************************************)

SpecModelInit == ModelInit /\ GeomIdle /\ LayoutIdle
SpecModel == SpecModelInit /\ [][ModelNext]_vars

SpecGeomInit == ModelInit /\ GeomInit /\ LayoutIdle
SpecGeom == SpecGeomInit /\ [][GeomNext]_vars

SpecLayoutInit == ModelInit /\ GeomIdle /\ LayoutInit
SpecLayout == SpecLayoutInit /\ [][LayoutNext]_vars

(***************************************************************************)
(* Properties of the core model.                                           *)
(***************************************************************************)

\* The bidirectional pairs the schema declares, as (relation, opposite).
C1_Pairs ==
    {<<"presentation", "subject">>, <<"ownedDiagram", "element">>,
     <<"comment", "annotatedElement">>, <<"ownedPresentation", "diagram">>,
     <<"children", "parent">>}

C1_Other(r) ==
    CHOOSE q \in Rels : <<r, q>> \in C1_Pairs \/ <<q, r>> \in C1_Pairs

\* C1: for each bidirectional pair (R, R'), B is in A's R exactly when A is in
\* B's R'; after A.set(R, B) both sides hold the link, and after
\* A.unset(R, B) neither does.
C1_Symmetry ==
    /\ \A pr \in C1_Pairs : \A a, b \in Entities :
           b \in rel[a][pr[1]] <=> a \in rel[b][pr[2]]
    /\ last.op = "set" =>
           /\ last.b \in rel[last.a][last.r]
           /\ last.a \in rel[last.b][C1_Other(last.r)]
    /\ last.op = "unset" =>
           /\ last.b \notin rel[last.a][last.r]
           /\ last.a \notin rel[last.b][C1_Other(last.r)]

\* A link was removed by unset while another link of a bidirectional pair
\* is still in place.
C1_Witness ==
    /\ last.op = "unset" /\ last.eff = "removed"
    /\ \E a, b \in Entities : b \in rel[a]["children"] /\ a \in rel[b]["parent"]

\* C2: ownedElement reads as the union of its contributors, which is
\* ownedDiagram alone (presentation contributes nothing); owner on a Diagram
\* reads as Diagram.element; neither has a stored value of its own.
C2_DerivedUnion ==
    /\ \A e \in Elements :
           DerivedGet(rel, e, "ownedElement") = rel[e]["ownedDiagram"]
    /\ \A d \in Diagrams : DerivedGet(rel, d, "owner") = rel[d]["element"]
    /\ \A e \in Entities : DOMAIN rel[e] \cap DerivedUnions = {}

\* An element holds a presentation and owns a diagram, whose owner it is.
C2_Witness ==
    \E e \in Elements, d \in Diagrams :
        /\ rel[e]["presentation"] # {}
        /\ DerivedGet(rel, e, "ownedElement") = {d}
        /\ DerivedGet(rel, d, "owner") = {e}

C3_UpperOneRels == {"parent", "diagram", "subject", "element"}
C3_CompositeRels ==
    {"presentation", "ownedDiagram", "ownedPresentation", "children"}

\* C3: an association with upper bound 1 holds at most one value; an entity
\* is in at most one owner's collection of a composite association, and a set
\* that gives it a new owner leaves it in the new owner's collection only.
C3_SingleOwner ==
    /\ \A e \in Entities, r \in C3_UpperOneRels : Cardinality(rel[e][r]) <= 1
    /\ \A r \in C3_CompositeRels : \A a, b \in Entities :
           a # b => rel[a][r] \cap rel[b][r] = {}
    /\ (last.op = "set" /\ last.r \in C3_UpperOneRels) =>
           rel[last.a][last.r] = {last.b}
    /\ (last.op = "set" /\ last.r \in C3_CompositeRels) =>
           \A x \in Entities : last.b \in rel[x][last.r] <=> x = last.a

\* An owned entity was just given another owner, through the owner's
\* collection.
C3_Witness ==
    /\ last.op = "set" /\ last.eff = "moved"
    /\ last.r \in C3_CompositeRels

\* C4: an entity deleted in a step takes its composite children with it, and
\* no entity references a deleted one.
C4_CascadeDelete ==
    /\ [](\A e \in Entities, r \in Rels :
            rel[e][r] \subseteq alive /\ (e \notin alive => rel[e][r] = {}))
    /\ [][\A e \in alive \ alive' : \A r \in C3_CompositeRels :
              rel[e][r] \cap alive' = {}]_vars

\* One deletion removed an owner together with composite descendants: at
\* least three entities are gone.
C4_Witness ==
    /\ last.op = "delete" /\ last.eff = "cascade"
    /\ Cardinality(Entities \ alive) >= 3

RECURSIVE C5_Ancestors(_, _)
C5_Ancestors(p, n) ==
    IF n = 0 THEN {}
    ELSE rel[p]["parent"] \cup
         UNION {C5_Ancestors(q, n - 1) : q \in rel[p]["parent"]}

C6_dx == call.points[2][1] - call.points[1][1]
C6_dy == call.points[2][2] - call.points[1][2]
C6_Horizontal == C6_dy = 0 \/ Abs(C6_dx) > 6 * Abs(C6_dy)
C6_Vertical == C6_dy # 0 /\ 5 * Abs(C6_dx) <= Abs(C6_dy)
C6_Called == call.fn = "_text_point_at_line_end" /\ ret.status = "ok"
C6_Offset ==
    <<ret.pt[1][1] - call.points[1][1] * ret.pt[1][2],
      ret.pt[2][1] - call.points[1][2] * ret.pt[2][2]>>
C6_Xor(a, b) == (a /\ ~b) \/ (~a /\ b)
C6_Mirrored ==
    <<call.points[2][1], call.points[1][2] - C6_dy>>

\* The vertical and diagonal regimes, and the worked example, as the claim
\* and its amendment both state them.
C6_OtherRegimes ==
    /\ (C6_Called /\ C6_Vertical) =>
           C6_Offset = <<-5 - call.size[1],
                         IF C6_dy > 0 THEN 5 ELSE -5 - call.size[2]>>
    /\ (C6_Called /\ ~C6_Horizontal /\ ~C6_Vertical) =>
           LET r == Abs(C6_dx) < Abs(C6_dy)
           IN C6_Offset =
                  <<IF C6_Xor(C6_dx > 0, r) THEN 5 ELSE -5 - call.size[1],
                    IF C6_Xor(C6_dy > 0, r) THEN -5 - call.size[2] ELSE 5>>
    /\ ( /\ call.fn = "text_point_at_line" /\ ret.status = "ok"
         /\ call.points = <<<<0, 0>>, <<100, 0>>>>
         /\ call.size = <<20, 10>> /\ call.align = "LEFT" ) =>
           ret.pt = <<RInt(5), RInt(-15)>>

\* C6 (as amended): _text_point_at_line_end returns p1 plus an offset with
\* padding 5: for |rc| > 6 (and for dy = 0) the text goes above p1, right of
\* it when dx > 0 and left of it otherwise, whatever the sign of dy; for
\* |rc| <= 0.2 left of p1, below for dy > 0 and above otherwise; otherwise
\* the sides are the XOR of (dx > 0, dy > 0) with |rc| < 1.
C6_LineEndPlacement ==
    /\ (C6_Called /\ C6_Horizontal) =>
           /\ ret.pt[1][2] = 1 /\ ret.pt[2][2] = 1
           /\ C6_Offset = <<IF C6_dx > 0 THEN 5 ELSE -5 - call.size[1],
                            -5 - call.size[2]>>
    /\ C6_Called => ret.pt[1][2] = 1 /\ ret.pt[2][2] = 1
    /\ C6_OtherRegimes

\* A segment of the horizontal regime that descends (dy > 0) has been placed.
C6_Witness ==
    /\ C6_Called /\ C6_Horizontal /\ C6_dy > 0 /\ C6_dx < 0
    /\ call.size = <<20, 10>>

\* C6 (as claimed): in the horizontal regime the side above or below p1
\* follows the sign of dy, so a segment and its mirror image in the
\* horizontal through p1 get different vertical offsets.
C6_AsClaimed ==
    /\ (C6_Called /\ C6_Horizontal /\ C6_dy # 0) =>
           TextPointAtLineEnd(call.size, call.points[1], call.points[2])[2]
             # TextPointAtLineEnd(call.size, call.points[1], C6_Mirrored)[2]
    /\ C6_OtherRegimes

C7_n == Len(call.points)

\* C7: text_point_at_line places the label on (points[0], points[1]) for
\* LEFT, on (points[-1], points[-2]) for RIGHT and on the middle segment
\* (points[n div 2 - 1], points[n div 2]) for CENTER; middle_segment returns
\* no segment for fewer than 2 points.
C7_SegmentChoice ==
    /\ (call.fn = "text_point_at_line" /\ ret.status # "pending") =>
           IF C7_n < 2 THEN ret.status # "ok"
           ELSE /\ ret.status = "ok"
                /\ call.align = "LEFT" =>
                       /\ ret.seg = <<call.points[1], call.points[2]>>
                       /\ ret.helper = "_text_point_at_line_end"
                /\ call.align = "RIGHT" =>
                       /\ ret.seg = <<call.points[C7_n], call.points[C7_n - 1]>>
                       /\ ret.helper = "_text_point_at_line_end"
                /\ call.align = "CENTER" =>
                       /\ ret.seg = <<call.points[C7_n \div 2],
                                      call.points[(C7_n \div 2) + 1]>>
                       /\ ret.helper = "_text_point_at_line_center"
                /\ ret.pt = IF call.align = "CENTER"
                            THEN TextPointAtLineCenter(call.size, ret.seg[1],
                                                       ret.seg[2])
                            ELSE TextPointAtLineEnd(call.size, ret.seg[1],
                                                    ret.seg[2])
    /\ (call.fn = "middle_segment" /\ ret.status # "pending") =>
           IF C7_n < 2 THEN ret.status # "ok"
           ELSE /\ ret.status = "ok"
                /\ ret.seg = <<call.points[C7_n \div 2],
                               call.points[(C7_n \div 2) + 1]>>
    /\ ( /\ call.fn = "middle_segment" /\ ret.status # "pending"
         /\ call.points = <<<<0, 0>>, <<1, 1>>, <<2, 2>>>> ) =>
           ret.seg = <<<<0, 0>>, <<1, 1>>>>

\* A label was placed at the centre of a polyline of four distinct points.
C7_Witness ==
    /\ call.fn = "text_point_at_line" /\ ret.status = "ok"
    /\ call.align = "CENTER" /\ C7_n = 4
    /\ Cardinality({call.points[i] : i \in 1..4}) = 4

\* C8: focus_box_pos returns (x, y + (h-th)/2) for LEFT,
\* (x + (w-tw)/2, y + (h-th)/2) for CENTER and (x + (w-tw), y + (h-th)/2) for
\* RIGHT; box (0,0,100,20) with text (40,10) gives (30,5) for CENTER and (0,5)
\* for LEFT.
C8_FocusBoxPos ==
    /\ (call.fn = "focus_box_pos" /\ ret.status = "ok") =>
           LET x == call.box[1]
               y == call.box[2]
               w == call.box[3]
               h == call.box[4]
               tw == call.size[1]
               th == call.size[2]
               X == ret.pt[1]
               Y == ret.pt[2]
           IN /\ X[2] > 0 /\ Y[2] > 0
              /\ 2 * Y[1] = (2 * y + (h - th)) * Y[2]
              /\ call.align = "LEFT" => X[1] = x * X[2]
              /\ call.align = "CENTER" => 2 * X[1] = (2 * x + (w - tw)) * X[2]
              /\ call.align = "RIGHT" => X[1] = (x + (w - tw)) * X[2]
    /\ FocusBoxPos(<<0, 0, 100, 20>>, <<40, 10>>, "CENTER")
           = <<RInt(30), RInt(5)>>
    /\ FocusBoxPos(<<0, 0, 100, 20>>, <<40, 10>>, "LEFT")
           = <<RInt(0), RInt(5)>>

\* A text wider than its box was right-aligned, at a half-unit height.
C8_Witness ==
    /\ call.fn = "focus_box_pos" /\ ret.status = "ok"
    /\ call.align = "RIGHT" /\ call.box[3] < call.size[1]
    /\ ret.pt[2][2] = 2

(***************************************************************************)
(* Properties of the Layout object.                                        *)
(***************************************************************************)

C9_Repeated(ops) == hist.repeat /\ hist.op \in ops

\* C9 (as amended): a set_text or set_font that repeats the call before it
\* with an identical value changes nothing, makes no call on the underlying
\* layout and builds no font description; a repeated set_width or
\* set_alignment changes no state of the Layout or of the underlying layout
\* either, but does make its one call on the underlying layout again.
C9_RepeatedSetters ==
    /\ C9_Repeated({"set_text", "set_font"}) =>
           ~hist.changed /\ hist.calls = 0 /\ hist.fds = 0
    /\ C9_Repeated({"set_width", "set_alignment"}) =>
           ~hist.changed /\ hist.calls = 1 /\ hist.fds = 0

\* set_font was called a second time with the font just applied, on a
\* Layout that holds a text.
C9_Witness ==
    /\ C9_Repeated({"set_font"})
    /\ lay.text # <<>>
    /\ lay.font_id = <<hist.arg.family, hist.arg.size, hist.arg.weight,
                       hist.arg.style>>

\* C9 (as claimed): each of the four setters, repeated with an identical
\* value, changes nothing and makes no call on the underlying layout.
C9_AsClaimed ==
    C9_Repeated({"set_text", "set_font", "set_width", "set_alignment"}) =>
        ~hist.changed /\ hist.calls = 0 /\ hist.fds = 0

C10_Escaped(c) ==
    CASE c = "&" -> <<"&", "a", "m", "p", ";">>
      [] c = "<" -> <<"&", "l", "t", ";">>
      [] OTHER -> <<c>>

RECURSIVE C10_Markup(_)
C10_Markup(text) ==
    IF text = <<>> THEN <<"<", "/", "u", ">">>
    ELSE C10_Escaped(Head(text)) \o C10_Markup(Tail(text))

\* The underlying layout holds the current text, underlined exactly when
\* Layout.underline is set.
C10_ContentFollowsUnderline ==
    pango.content =
        IF lay.underline
        THEN [kind |-> "markup", s |-> <<"<", "u", ">">> \o C10_Markup(lay.text)]
        ELSE [kind |-> "text", s |-> lay.text]

\* C10: Layout.underline is set exactly when the font last given to set_font
\* is underlined, and the underlying layout holds the current text, as
\* underlined markup exactly when Layout.underline is set.
C10_UnderlineFollowsFont ==
    /\ lay.underline = (hist.font.decoration = "UNDERLINE")
    /\ C10_ContentFollowsUnderline

====
